---------------------------- MODULE Spec2Model ----------------------------
(***************************************************************************)
(* Model of the virtual file system of Tasnuva TOS (src/vfs.py): a flat    *)
(* SQLite table of path records plus the current-directory cursor, and of  *)
(* the shell that drives it (src/core.py): the command registry and the    *)
(* read-execute loop.                                                      *)
(*                                                                         *)
(* Python strings are sequences of one-character strings, so that          *)
(* splitting on "/", GLOB matching and byte-wise ordering are computed as  *)
(* the code computes them.  A file's content is a sequence of text pieces  *)
(* (the text is their concatenation); string concatenation is \o.          *)
(* The columns id, created_at and modified_at are not modelled.            *)
(***************************************************************************)
EXTENDS Integers, Sequences, FiniteSets, TLC

VARIABLES fs, current_path, last, commands, shell

vars == <<fs, current_path, last, commands, shell>>

\* the state of the Core object: the command registry and the shell loop
core == <<commands, shell>>

(***************************************************************************)
(* Bounds of the model.                                                    *)
(***************************************************************************)
\* most rows the table may hold when a row is inserted
MaxNodes == 9
\* most pieces a file's content may hold after a write
MaxContent == 2
\* most characters of the raw paths drawn exhaustively for normalize_path
MaxRaw == 4

(***************************************************************************)
(* String literals.                                                        *)
(***************************************************************************)
SLASH == "/"
Root == <<"/">>
Home == <<"/", "h", "o", "m", "e">>
Tmp == <<"/", "t", "m", "p">>
Usr == <<"/", "u", "s", "r">>
Var == <<"/", "v", "a", "r">>
WelcomePath == <<"/", "w", "e", "l", "c", "o", "m", "e", ".", "t", "x", "t">>
WelcomeText == <<"Welcome to Tasnuva TOS!\nThis is a virtual filesystem.\nTry commands like ls, cd, mkdir, touch, cat, echo, rm.\n">>
RootName == <<"r", "o", "o", "t">>
DotDot == <<".", ".">>
Dot == <<".">>

default_dirs == <<Home, Tmp, Usr, Var>>

\* the text of the two values of the type column
TypeText(t) == IF t = "file" THEN <<"f", "i", "l", "e">>
               ELSE <<"d", "i", "r", "e", "c", "t", "o", "r", "y">>

\* byte value of a character (ASCII)
Lower == <<"a", "b", "c", "d", "e", "f", "g", "h", "i", "j", "k", "l", "m",
           "n", "o", "p", "q", "r", "s", "t", "u", "v", "w", "x", "y", "z">>
Ord(c) == IF \E i \in 1..26 : Lower[i] = c
          THEN 96 + (CHOOSE i \in 1..26 : Lower[i] = c)
          ELSE CASE c = "*" -> 42
                 [] c = "-" -> 45
                 [] c = "." -> 46
                 [] c = "/" -> 47
                 [] c = "?" -> 63
                 [] c = "[" -> 91
                 [] c = "]" -> 93
                 [] c = "^" -> 94

\* s < t for two strings, compared byte by byte (SQLite's BINARY collation)
RECURSIVE StrLess(_, _)
StrLess(s, t) ==
    IF t = <<>> THEN FALSE
    ELSE IF s = <<>> THEN TRUE
    ELSE IF Head(s) = Head(t) THEN StrLess(Tail(s), Tail(t))
    ELSE Ord(Head(s)) < Ord(Head(t))

(***************************************************************************)
(* Python string helpers.                                                  *)
(***************************************************************************)
\* path.split('/')
RECURSIVE split(_)
split(s) ==
    IF \A i \in 1..Len(s) : s[i] # SLASH THEN <<s>>
    ELSE LET i == CHOOSE k \in 1..Len(s) :
                      s[k] = SLASH /\ \A j \in 1..(k - 1) : s[j] # SLASH
         IN <<SubSeq(s, 1, i - 1)>> \o split(SubSeq(s, i + 1, Len(s)))

\* '/'.join(parts)
RECURSIVE join(_)
join(parts) ==
    IF parts = <<>> THEN <<>>
    ELSE IF Len(parts) = 1 THEN parts[1]
    ELSE parts[1] \o <<SLASH>> \o join(Tail(parts))

\* p.rfind('/') + 1
rfind1(p) ==
    IF \E i \in 1..Len(p) : p[i] = SLASH
    THEN CHOOSE i \in 1..Len(p) :
             p[i] = SLASH /\ \A j \in (i + 1)..Len(p) : p[j] # SLASH
    ELSE 0

\* os.path.basename
basename(p) == SubSeq(p, rfind1(p) + 1, Len(p))

\* head.rstrip('/')
RECURSIVE rstrip(_)
rstrip(s) ==
    IF s # <<>> /\ s[Len(s)] = SLASH THEN rstrip(SubSeq(s, 1, Len(s) - 1))
    ELSE s

\* os.path.dirname
dirname(p) ==
    LET head == SubSeq(p, 1, rfind1(p))
    IN IF head # <<>> /\ \E i \in 1..Len(head) : head[i] # SLASH
       THEN rstrip(head)
       ELSE head

(***************************************************************************)
(* SQLite's GLOB: * matches any run of characters (a "/" included), ?      *)
(* matches one character, [..] and [^..] match one character of a class.   *)
(***************************************************************************)
\* index of the "]" that closes the class opened just before position i
RECURSIVE ClassEnd(_, _, _)
ClassEnd(pat, i, first) ==
    IF i > Len(pat) THEN 0
    ELSE IF pat[i] = "]" /\ ~first THEN i
    ELSE ClassEnd(pat, i + 1, FALSE)

\* whether character c is in the class body pat[i..j-1]
RECURSIVE InClass(_, _, _, _)
InClass(pat, i, j, c) ==
    IF i >= j THEN FALSE
    ELSE IF i + 2 < j /\ pat[i + 1] = "-"
         THEN (Ord(pat[i]) <= Ord(c) /\ Ord(c) <= Ord(pat[i + 2]))
              \/ InClass(pat, i + 3, j, c)
         ELSE pat[i] = c \/ InClass(pat, i + 1, j, c)

RECURSIVE GLOB(_, _)
GLOB(s, pat) ==
    IF pat = <<>> THEN s = <<>>
    ELSE IF Head(pat) = "*"
         THEN \E k \in 0..Len(s) : GLOB(SubSeq(s, k + 1, Len(s)), Tail(pat))
    ELSE IF s = <<>> THEN FALSE
    ELSE IF Head(pat) = "?" THEN GLOB(Tail(s), Tail(pat))
    ELSE IF Head(pat) = "["
         THEN LET neg == Len(pat) >= 2 /\ pat[2] = "^"
                  b == IF neg THEN 3 ELSE 2
                  e == ClassEnd(pat, b, TRUE)
              IN IF e = 0 THEN FALSE
                 ELSE (InClass(pat, b, e, Head(s)) # neg)
                      /\ GLOB(Tail(s), SubSeq(pat, e + 1, Len(pat)))
    ELSE Head(pat) = Head(s) /\ GLOB(Tail(s), Tail(pat))

(***************************************************************************)
(* The table: path is UNIQUE, so the rows are a function of the path.      *)
(***************************************************************************)
Row(name, type, content) == [name |-> name, type |-> type, content |-> content]

EmptyTable == [p \in {} |-> Row(<<>>, "file", <<>>)]

\* INSERT INTO filesystem (path, name, type, content)
Insert(t, path, name, type, content) ==
    [p \in DOMAIN t \cup {path} |->
        IF p = path THEN Row(name, type, content) ELSE t[p]]

\* a DELETE that also takes every row below the path (WHERE path = ? OR path
\* LIKE ? || '/%')
DeleteSubtree(t, path) ==
    LET below(q) == /\ Len(q) > Len(path)
                    /\ SubSeq(q, 1, Len(path) + 1) = path \o <<SLASH>>
    IN [q \in {r \in DOMAIN t : r # path /\ ~below(r)} |-> t[q]]

\* DELETE FROM filesystem WHERE path = ?
Delete(t, path) == [p \in DOMAIN t \ {path} |-> t[p]]

\* UPDATE filesystem SET content = ? WHERE path = ?
Update(t, path, content) == [t EXCEPT ![path].content = content]

RECURSIVE InsertDirs(_, _)
InsertDirs(t, dirs) ==
    IF dirs = <<>> THEN t
    ELSE InsertDirs(Insert(t, Head(dirs), basename(Head(dirs)), "directory", <<>>),
                    Tail(dirs))

\* the rows init_database and reset_filesystem insert
DefaultRows(t) ==
    Insert(InsertDirs(Insert(t, Root, RootName, "directory", <<>>), default_dirs),
           WelcomePath, basename(WelcomePath), "file", WelcomeText)

init_database(t) == IF Root \notin DOMAIN t THEN DefaultRows(t) ELSE t

\* a Python result that may be None
NONE == [ok |-> FALSE, val |-> <<>>]
Some(v) == [ok |-> TRUE, val |-> v]

(***************************************************************************)
(* Queries.                                                                *)
(***************************************************************************)
\* the loop of normalize_path over path.split('/'): parts after the segments
RECURSIVE Resolve(_, _)
Resolve(segs, parts) ==
    IF segs = <<>> THEN parts
    ELSE LET part == Head(segs)
         IN IF part = <<>> \/ part = Dot THEN Resolve(Tail(segs), parts)
            ELSE IF part = DotDot
                 THEN IF parts # <<>>
                      THEN Resolve(Tail(segs), SubSeq(parts, 1, Len(parts) - 1))
                      ELSE Resolve(Tail(segs), parts)
            ELSE Resolve(Tail(segs), Append(parts, part))

\* a normalize_path with the startswith('/') test inverted: an absolute path
\* is prefixed with the current directory and a relative one is not
normalize_inverted(path, base) ==
    LET abs == IF path # <<>> /\ Head(path) = SLASH
               THEN IF base = Root THEN <<SLASH>> \o path
                    ELSE base \o <<SLASH>> \o path
               ELSE path
        parts == Resolve(split(abs), <<>>)
    IN IF parts # <<>> THEN <<SLASH>> \o join(parts) ELSE Root

\* a normalize_path that only drops the empty segments and keeps "." and ".."
normalize_unresolved(path, base) ==
    LET abs == IF path = <<>> \/ Head(path) # SLASH
               THEN IF base = Root THEN <<SLASH>> \o path
                    ELSE base \o <<SLASH>> \o path
               ELSE path
        parts == SelectSeq(split(abs), LAMBDA part : part # <<>>)
    IN IF parts # <<>> THEN <<SLASH>> \o join(parts) ELSE Root

\* normalize_path with self.current_path = base
normalize(path, base) ==
    LET abs == IF path = <<>> \/ Head(path) # SLASH
               THEN IF base = Root THEN <<SLASH>> \o path
                    ELSE base \o <<SLASH>> \o path
               ELSE path
        parts == Resolve(split(abs), <<>>)
    IN IF parts # <<>> THEN <<SLASH>> \o join(parts) ELSE Root

normalize_path(path) == normalize(path, current_path)

\* The queries, as functions of the table t and of self.current_path = base.

\* SELECT ... FROM filesystem WHERE path = ?
Select(t, path) == IF path \in DOMAIN t THEN Some(t[path]) ELSE NONE

ExistsIn(t, base, path) == Select(t, normalize(path, base)).ok

\* an is_directory that does not look at the type column
IsDirectoryInAnyType(t, base, path) == Select(t, normalize(path, base)).ok

IsDirectoryIn(t, base, path) ==
    LET result == Select(t, normalize(path, base))
    IN result.ok /\ result.val.type = "directory"

\* an is_file that does not look at the type column
IsFileInAnyType(t, base, path) == Select(t, normalize(path, base)).ok

IsFileIn(t, base, path) ==
    LET result == Select(t, normalize(path, base))
    IN result.ok /\ result.val.type = "file"

\* the GLOB pattern list_directory and remove build for a directory
ChildPattern(path) ==
    IF path = Root THEN <<"/", "[", "^", "/", "]", "*">>
    ELSE path \o <<"/", "[", "^", "/", "]", "*">>

\* ORDER BY type DESC, name: whether row p sorts before row q
RowLess(t, p, q) ==
    \/ StrLess(TypeText(t[q].type), TypeText(t[p].type))
    \/ t[p].type = t[q].type /\ StrLess(t[p].name, t[q].name)

RECURSIVE OrderBy(_, _)
OrderBy(t, ps) ==
    IF ps = {} THEN <<>>
    ELSE LET p == CHOOSE x \in ps : \A y \in ps : ~RowLess(t, y, x)
         IN <<p>> \o OrderBy(t, ps \ {p})

\* the paths selected by list_directory's query, in its order
ListQuery(t, path) ==
    OrderBy(t, {p \in DOMAIN t : GLOB(p, ChildPattern(path)) /\ p # path})

\* list_directory(path): NONE, or the (name, type) pairs
ListDirectoryIn(t, base, path) ==
    LET p == normalize(path, base)
    IN IF ~ExistsIn(t, base, p) \/ ~IsDirectoryIn(t, base, p) THEN NONE
       ELSE LET q == ListQuery(t, p)
            IN Some([i \in 1..Len(q) |-> <<t[q[i]].name, t[q[i]].type>>])

\* read_file(path): NONE, or the content
ReadFileIn(t, base, path) ==
    LET p == normalize(path, base)
    IN IF ~ExistsIn(t, base, p) \/ ~IsFileIn(t, base, p) THEN NONE
       ELSE Some(t[p].content)

\* The queries in the current state.
exists(path) == ExistsIn(fs, current_path, path)

is_directory(path) == IsDirectoryIn(fs, current_path, path)

is_file(path) == IsFileIn(fs, current_path, path)

list_directory(path) == ListDirectoryIn(fs, current_path, path)

read_file(path) == ReadFileIn(fs, current_path, path)

(***************************************************************************)
(* Inputs: the raw path strings and contents the operations are called     *)
(* with.                                                                   *)
(***************************************************************************)
A == <<"/", "a">>
AB == <<"/", "a", "/", "b">>
ABF == <<"/", "a", "/", "b", "/", "f">>
Star == <<"/", "*">>

\* the workload of an ordinary session
RemovePaths == {Root, Dot, Home, WelcomePath, A, AB, ABF, Star}
WritePaths == {Root, WelcomePath, ABF}
DirPaths == {Root, A, AB, Star}
CdPaths == {Root, DotDot, Home, WelcomePath}
QueryPaths == {Root, Dot, WelcomePath, A, AB, Star}

\* the workload of a session that empties the file system
TeardownTestPaths == {Dot, A}
TeardownRemovePaths == {Root, Dot, Home, Tmp, Usr, Var, WelcomePath, A}
TeardownWritePaths == {Root, A}
TeardownDirPaths == {Root, A, AB}
TeardownCdPaths == {Root, Home}
TeardownQueryPaths == {Root, A}

\* the raw paths handed to normalize_path: every string of at most MaxRaw
\* characters over RawChars, and three longer ones
X == <<"/", "x">>
XY == <<"/", "x", "/", "y">>
NormalizeDirs == {X, XY}
\* the current directory and the root as targets of a write
NormalizeWritePaths == {Root, Dot, <<>>}
RawChars == {SLASH, ".", "a"}
LongPaths ==
    { <<"a", "/", ".", ".", "/", "b">>,
      <<"/", "a", "/", ".", "/", "b", "/">>,
      <<"/", "/", "a", "/", ".", ".", "/", ".", ".", "/", "b", "/", "/">> }
RawPaths == UNION {[1..n -> RawChars] : n \in 0..MaxRaw} \cup LongPaths

ResetWritePaths == {WelcomePath}
ResetDirPaths == {A}
ResetRemovePaths == {Home}
ResetCdPaths == {Root, Home}
Contents == {<<>>, <<"x">>}

\* the record of the call just made: the method, its arguments and whether
\* it returned True (or, for a query, something other than None)
Call(op, path, content, append, ok) ==
    [op |-> op, path |-> path, content |-> content, append |-> append, ok |-> ok]

(***************************************************************************)
(* The Core object (src/core.py): the registry of loaded commands and the  *)
(* shell loop.  A command line is the list of words shlex.split makes of   *)
(* it; a text the shell handles is a sequence of characters, a message     *)
(* with a fixed wording is kept as one piece.                              *)
(***************************************************************************)
Upper == <<"A", "B", "C", "D", "E", "F", "G", "H", "I", "J", "K", "L", "M",
           "N", "O", "P", "Q", "R", "S", "T", "U", "V", "W", "X", "Y", "Z">>

\* str.lower()
lower(s) ==
    [i \in 1..Len(s) |->
        IF \E k \in 1..26 : Upper[k] = s[i]
        THEN Lower[CHOOSE k \in 1..26 : Upper[k] = s[i]]
        ELSE s[i]]

\* the names of the default commands init_commands_db inserts
default_commands ==
    { <<"l", "s">>,
      <<"p", "w", "d">>,
      <<"c", "d">>,
      <<"c", "a", "t">>,
      <<"e", "c", "h", "o">>,
      <<"m", "k", "d", "i", "r">>,
      <<"t", "o", "u", "c", "h">>,
      <<"r", "m">>,
      <<"h", "e", "l", "p">>,
      <<"c", "l", "e", "a", "r">>,
      <<"r", "e", "s", "e", "t">> }

\* words of the command lines
ResetWord == <<"r", "e", "s", "e", "t">>
Confirm == <<"-", "-", "c", "o", "n", "f", "i", "r", "m">>
EchoWord == <<"e", "c", "h", "o">>
CdWord == <<"c", "d">>
PwdWord == <<"p", "w", "d">>
ClearWord == <<"c", "l", "e", "a", "r">>
ExitWord == <<"e", "x", "i", "t">>
EXIT == <<"E", "X", "I", "T">>
Redirect == <<">">>
RedirectAppend == <<">", ">">>
Newline == <<"\n">>

\* the texts the commands and execute_command return
ResetDone == <<"System has been reset to default state.">>
ResetWarning ==
    <<"This is a destructive operation. Please run 'reset --confirm' to proceed.">>
EchoMissingFilename == <<"echo: missing filename for redirection">>
EchoCannotWrite(filename) == <<"echo: cannot write to ">> \o filename
CdNoSuchDirectory(path) == <<"cd: ">> \o path \o <<": No such directory">>
CommandNotFound(command) == command \o <<": command not found">>
ErrorExecuting(command, e) == <<"Error executing ">> \o command \o <<": ">> \o e
ErrorParsing(e) == <<"Error parsing command: ">> \o e
NoClosingQuotation == <<"No closing quotation">>
ImportNotFound == <<"__import__ not found">>

\* ' '.join(words)
RECURSIVE JoinSpace(_)
JoinSpace(words) ==
    IF words = <<>> THEN <<>>
    ELSE IF Len(words) = 1 THEN words[1]
    ELSE words[1] \o <<" ">> \o JoinSpace(Tail(words))

\* x in args, and args.index(x)
Contains(args, x) == \E i \in 1..Len(args) : args[i] = x
Index(args, x) ==
    CHOOSE i \in 1..Len(args) :
        args[i] = x /\ \A j \in 1..(i - 1) : args[j] # x

\* the command lines typed at the prompt, as shlex.split splits them
CommandLines ==
    { <<ResetWord>>,
      <<ResetWord, Confirm>>,
      <<<<"R", "E", "S", "E", "T">>, <<"-", "-", "C", "O", "N", "F", "I", "R", "M">>>>,
      <<EchoWord, <<"x">>>>,
      <<EchoWord, EXIT>>,
      <<EchoWord, <<"x">>, Redirect, A>>,
      <<EchoWord, Redirect>>,
      <<EchoWord, RedirectAppend, Root>>,
      <<CdWord>>,
      <<CdWord, Home>>,
      <<CdWord, A>>,
      <<PwdWord>>,
      <<ClearWord>>,
      <<<<"b", "o", "g", "u", "s">>>>,
      <<ExitWord>>,
      <<<<"E", "x", "i", "t">>>> }

\* the state after Core.__init__, before run_shell reads its first line
InitCore ==
    /\ commands = default_commands
    /\ shell = [running |-> TRUE, input |-> [kind |-> "none"], result |-> <<>>]

(***************************************************************************)
(* Operations.                                                             *)
(***************************************************************************)
Init ==
    /\ fs = init_database(EmptyTable)
    /\ current_path = Root
    /\ last = Call("init", Root, <<>>, FALSE, TRUE)
    /\ InitCore

ListDirectory(path) ==
    /\ last' = Call("list_directory", path, <<>>, FALSE, list_directory(path).ok)
    /\ UNCHANGED <<fs, current_path>>

ReadFile(path) ==
    /\ last' = Call("read_file", path, <<>>, FALSE, read_file(path).ok)
    /\ UNCHANGED <<fs, current_path>>

Exists(path) ==
    /\ last' = Call("exists", path, <<>>, FALSE, exists(path))
    /\ UNCHANGED <<fs, current_path>>

IsDirectory(path) ==
    /\ last' = Call("is_directory", path, <<>>, FALSE, is_directory(path))
    /\ UNCHANGED <<fs, current_path>>

IsFile(path) ==
    /\ last' = Call("is_file", path, <<>>, FALSE, is_file(path))
    /\ UNCHANGED <<fs, current_path>>

GetCurrentDirectory ==
    /\ last' = Call("get_current_directory", current_path, <<>>, FALSE, TRUE)
    /\ UNCHANGED <<fs, current_path>>

\* a write that drops the existing content even when append is set
NewContentNeverAppends(existing, content, append) == content

\* a write that keeps the existing content even when append is not set
NewContentAlwaysAppends(existing, content, append) == existing \o content

\* the content write_file stores in an existing file
NewContent(existing, content, append) ==
    IF append THEN existing \o content ELSE content

write_file(path, content, append) ==
    LET p == normalize_path(path)
    IN IF exists(p)
       THEN IF ~is_file(p)
            THEN /\ last' = Call("write_file", path, content, append, FALSE)
                 /\ UNCHANGED <<fs, current_path>>
            ELSE LET existing == fs[p].content
                     new == NewContent(existing, content, append)
                 IN /\ Len(new) <= MaxContent
                    /\ fs' = Update(fs, p, new)
                    /\ last' = Call("write_file", path, content, append, TRUE)
                    /\ UNCHANGED current_path
       ELSE /\ Cardinality(DOMAIN fs) < MaxNodes
            /\ Len(content) <= MaxContent
            /\ fs' = Insert(fs, p, basename(p), "file", content)
            /\ last' = Call("write_file", path, content, append, TRUE)
            /\ UNCHANGED current_path

create_directory(path) ==
    LET p == normalize_path(path)
        parent == dirname(p)
    IN IF exists(p) \/ (parent # p /\ ~exists(parent))
       THEN /\ last' = Call("create_directory", path, <<>>, FALSE, FALSE)
            /\ UNCHANGED <<fs, current_path>>
       ELSE /\ Cardinality(DOMAIN fs) < MaxNodes
            /\ fs' = Insert(fs, p, basename(p), "directory", <<>>)
            /\ last' = Call("create_directory", path, <<>>, FALSE, TRUE)
            /\ UNCHANGED current_path

\* a remove that moves the cursor to the parent when it deletes the current
\* directory
remove_moves_cursor(path) ==
    LET p == normalize_path(path)
        count == Cardinality({q \in DOMAIN fs : GLOB(q, ChildPattern(p))})
    IN IF ~exists(p) \/ (is_directory(p) /\ count > 0)
       THEN /\ last' = Call("remove", path, <<>>, FALSE, FALSE)
            /\ UNCHANGED <<fs, current_path>>
       ELSE /\ fs' = Delete(fs, p)
            /\ last' = Call("remove", path, <<>>, FALSE, TRUE)
            /\ current_path' = IF p = current_path THEN dirname(p)
                                ELSE current_path

\* a remove that deletes the row before it counts the children
remove_deletes_before_check(path) ==
    LET p == normalize_path(path)
        count == Cardinality({q \in DOMAIN fs : GLOB(q, ChildPattern(p))})
    IN IF ~exists(p)
       THEN /\ last' = Call("remove", path, <<>>, FALSE, FALSE)
            /\ UNCHANGED <<fs, current_path>>
       ELSE /\ fs' = Delete(fs, p)
            /\ last' = Call("remove", path, <<>>, FALSE,
                            ~(is_directory(p) /\ count > 0))
            /\ UNCHANGED current_path

remove(path) ==
    LET p == normalize_path(path)
        count == Cardinality({q \in DOMAIN fs : GLOB(q, ChildPattern(p))})
    IN IF ~exists(p) \/ (is_directory(p) /\ count > 0)
       THEN /\ last' = Call("remove", path, <<>>, FALSE, FALSE)
            /\ UNCHANGED <<fs, current_path>>
       ELSE /\ fs' = Delete(fs, p)
            /\ last' = Call("remove", path, <<>>, FALSE, TRUE)
            /\ UNCHANGED current_path

\* a cd that stores the path as typed instead of the normalized one
change_directory_raw(path) ==
    LET p == normalize_path(path)
    IN IF ~exists(p) \/ ~is_directory(p)
       THEN /\ last' = Call("change_directory", path, <<>>, FALSE, FALSE)
            /\ UNCHANGED <<fs, current_path>>
       ELSE /\ current_path' = path
            /\ last' = Call("change_directory", path, <<>>, FALSE, TRUE)
            /\ UNCHANGED fs

change_directory(path) ==
    LET p == normalize_path(path)
    IN IF ~exists(p) \/ ~is_directory(p)
       THEN /\ last' = Call("change_directory", path, <<>>, FALSE, FALSE)
            /\ UNCHANGED <<fs, current_path>>
       ELSE /\ current_path' = p
            /\ last' = Call("change_directory", path, <<>>, FALSE, TRUE)
            /\ UNCHANGED fs

\* a reset that keeps the table: CREATE TABLE IF NOT EXISTS without the DROP
reset_filesystem_keeps_table ==
    /\ fs' = init_database(fs)
    /\ current_path' = Root
    /\ last' = Call("reset_filesystem", Root, <<>>, FALSE, TRUE)

reset_filesystem ==
    /\ fs' = DefaultRows(EmptyTable)
    /\ current_path' = Root
    /\ last' = Call("reset_filesystem", Root, <<>>, FALSE, TRUE)

\* a call of normalize_path alone, with what it returned
NormalizePath(path) ==
    /\ last' = [op |-> "normalize_path", path |-> path,
                ret |-> normalize_path(path)]
    /\ UNCHANGED <<fs, current_path>>

(***************************************************************************)
(* reset_filesystem statement by statement.  fs is the table as committed  *)
(* to the database file.  Python's sqlite3 runs DROP TABLE and CREATE      *)
(* TABLE outside a transaction, so each is committed at once; the INSERTs  *)
(* open a transaction that the one commit() at the end closes, and that is *)
(* rolled back when the call is abandoned.  While the call runs, last      *)
(* holds its position pc, whether the table exists, the uncommitted rows   *)
(* txn, and the state the call started from.                               *)
(***************************************************************************)
Resetting(pc, table, txn, pre) ==
    [op |-> "resetting", pc |-> pc, table |-> table, txn |-> txn, pre |-> pre]

Running == last.op = "resetting"

\* the table is there for the other operations to use
TableExists ==
    IF last.op \in {"resetting", "reset_interrupted"} THEN last.table ELSE TRUE

\* no reset is under way and the table is there
Idle == ~Running /\ TableExists

\* DROP TABLE IF EXISTS filesystem
ResetDrop ==
    /\ ~Running
    /\ fs' = EmptyTable
    /\ last' = Resetting("dropped", FALSE, EmptyTable,
                         [fs |-> fs, current_path |-> current_path])
    /\ UNCHANGED current_path

\* CREATE TABLE filesystem
ResetCreate ==
    /\ Running /\ last.pc = "dropped"
    /\ last' = [last EXCEPT !.pc = "created", !.table = TRUE]
    /\ UNCHANGED <<fs, current_path>>

\* self.current_path = "/"
ResetCursor ==
    /\ Running /\ last.pc = "created"
    /\ current_path' = Root
    /\ last' = [last EXCEPT !.pc = "cursor"]
    /\ UNCHANGED fs

\* the next INSERT: the root, the four default directories, welcome.txt
ResetInsert ==
    /\ Running /\ last.pc \in {"cursor", "inserting"}
    /\ LET n == Cardinality(DOMAIN last.txn)
           row == IF n = 0
                  THEN Insert(last.txn, Root, RootName, "directory", <<>>)
                  ELSE IF n <= Len(default_dirs)
                  THEN Insert(last.txn, default_dirs[n],
                              basename(default_dirs[n]), "directory", <<>>)
                  ELSE Insert(last.txn, WelcomePath, basename(WelcomePath),
                              "file", WelcomeText)
       IN /\ n < Len(default_dirs) + 2
          /\ last' = [last EXCEPT !.pc = "inserting", !.txn = row]
    /\ UNCHANGED <<fs, current_path>>

\* conn.commit(); conn.close(); return True
ResetCommit ==
    /\ Running /\ last.pc = "inserting"
    /\ Cardinality(DOMAIN last.txn) = Len(default_dirs) + 2
    /\ fs' = last.txn
    /\ last' = Call("reset_filesystem", Root, <<>>, FALSE, TRUE)
    /\ UNCHANGED current_path

\* the call is abandoned where it stands (an sqlite3 error, Ctrl-C): the open
\* transaction is rolled back, what was committed and the cursor stay
ResetInterrupt ==
    /\ Running
    /\ last' = [op |-> "reset_interrupted", pc |-> last.pc,
                table |-> last.table, pre |-> last.pre]
    /\ UNCHANGED <<fs, current_path>>

(***************************************************************************)
(* The shell: run_shell reads a line, execute_command dispatches it to the *)
(* handler loaded under its first word, and the loop ends when the text    *)
(* that comes back is 'EXIT'.                                              *)
(***************************************************************************)
Line(parts) == [kind |-> "line", parts |-> parts]

\* execute_command returns result; run_shell breaks when it is 'EXIT'
Return(input, result) ==
    shell' = [running |-> result # EXIT, input |-> input, result |-> result]

\* a reset_core that clears the registry and does not load it again
reset_core_without_load ==
    /\ reset_filesystem
    /\ commands' = {}

\* reset_filesystem, then the commands table is dropped and filled with the
\* defaults, the registry is cleared and loaded from it
reset_core ==
    /\ reset_filesystem
    /\ commands' = {} \cup default_commands

reset_command(input, args) ==
    IF Contains(args, Confirm)
    THEN /\ reset_core
         /\ Return(input, ResetDone)
    ELSE /\ Return(input, ResetWarning)
         /\ UNCHANGED <<fs, current_path, last, commands>>

echo_command(input, args) ==
    IF args = <<>>
    THEN /\ Return(input, <<>>)
         /\ UNCHANGED <<fs, current_path, last, commands>>
    ELSE IF Contains(args, Redirect) \/ Contains(args, RedirectAppend)
    THEN LET append == ~Contains(args, Redirect)
             redirect_idx ==
                 Index(args, IF append THEN RedirectAppend ELSE Redirect)
         IN IF redirect_idx = Len(args)
            THEN /\ Return(input, EchoMissingFilename)
                 /\ UNCHANGED <<fs, current_path, last, commands>>
            ELSE LET text == JoinSpace(SubSeq(args, 1, redirect_idx - 1))
                     filename == args[redirect_idx + 1]
                 IN /\ write_file(filename, text \o Newline, append)
                    /\ Return(input, IF last'.ok THEN <<>>
                                     ELSE EchoCannotWrite(filename))
                    /\ UNCHANGED commands
    ELSE /\ Return(input, JoinSpace(args))
         /\ UNCHANGED <<fs, current_path, last, commands>>

cd_command(input, args) ==
    LET path == IF args = <<>> THEN Root ELSE args[1]
    IN /\ change_directory(path)
       /\ Return(input, IF last'.ok THEN <<>> ELSE CdNoSuchDirectory(path))
       /\ UNCHANGED commands

pwd_command(input, args) ==
    /\ GetCurrentDirectory
    /\ Return(input, current_path)
    /\ UNCHANGED commands

\* clear_command's "import os" fails under the restricted builtins
clear_command(input, args) ==
    /\ Return(input, ErrorExecuting(ClearWord, ImportNotFound))
    /\ UNCHANGED <<fs, current_path, last, commands>>

\* a line that shlex.split splits into parts
execute_command(parts) ==
    LET input == Line(parts)
        command == lower(parts[1])
        args == Tail(parts)
    IN /\ shell.running
       /\ IF command = ExitWord
          THEN /\ Return(input, EXIT)
               /\ UNCHANGED <<fs, current_path, last, commands>>
          ELSE IF command \in commands
          THEN CASE command = ResetWord -> reset_command(input, args)
                 [] command = EchoWord -> echo_command(input, args)
                 [] command = CdWord -> cd_command(input, args)
                 [] command = PwdWord -> pwd_command(input, args)
                 [] command = ClearWord -> clear_command(input, args)
          ELSE /\ Return(input, CommandNotFound(command))
               /\ UNCHANGED <<fs, current_path, last, commands>>

\* a line with an unclosed quote: shlex.split raises ValueError
ParseError ==
    /\ shell.running
    /\ Return([kind |-> "unbalanced"], ErrorParsing(NoClosingQuotation))
    /\ UNCHANGED <<fs, current_path, last, commands>>

\* an empty line: run_shell continues with the next prompt
BlankLine ==
    /\ shell.running
    /\ shell' = [running |-> TRUE, input |-> [kind |-> "blank"], result |-> <<>>]
    /\ UNCHANGED <<fs, current_path, last, commands>>

\* Ctrl-C at the prompt: a hint is printed and the loop goes on
KeyboardInterrupt ==
    /\ shell.running
    /\ shell' = [running |-> TRUE, input |-> [kind |-> "interrupt"],
                 result |-> <<>>]
    /\ UNCHANGED <<fs, current_path, last, commands>>

\* end of input at the prompt: the loop is left
EndOfInput ==
    /\ shell.running
    /\ shell' = [running |-> FALSE, input |-> [kind |-> "eof"], result |-> <<>>]
    /\ UNCHANGED <<fs, current_path, last, commands>>

Step(QP, WP, DP, RP, CP) ==
    \/ \E path \in QP : ListDirectory(path) /\ UNCHANGED core
    \/ \E path \in QP : ReadFile(path) /\ UNCHANGED core
    \/ \E path \in WP, content \in Contents, append \in BOOLEAN :
           write_file(path, content, append) /\ UNCHANGED core
    \/ \E path \in DP : create_directory(path) /\ UNCHANGED core
    \/ \E path \in RP : remove(path) /\ UNCHANGED core
    \/ \E path \in CP : change_directory(path) /\ UNCHANGED core
    \/ reset_filesystem /\ UNCHANGED core

\* the queries the commands make before they act, and pwd
Tests(TP) ==
    \/ \E path \in TP : Exists(path) /\ UNCHANGED core
    \/ \E path \in TP : IsDirectory(path) /\ UNCHANGED core
    \/ \E path \in TP : IsFile(path) /\ UNCHANGED core
    \/ GetCurrentDirectory /\ UNCHANGED core

Next == Step(QueryPaths, WritePaths, DirPaths, RemovePaths, CdPaths)

Spec == Init /\ [][Next]_vars

NextTeardown ==
    \/ Step(TeardownQueryPaths, TeardownWritePaths, TeardownDirPaths,
            TeardownRemovePaths, TeardownCdPaths)
    \/ Tests(TeardownTestPaths)

SpecTeardown == Init /\ [][NextTeardown]_vars

\* normalize_path applied to every short raw path, and writes addressed to the
\* current directory, from each of four current directories
NextNormalize ==
    \/ \E path \in NormalizeDirs : create_directory(path) /\ UNCHANGED core
    \/ \E path \in NormalizeDirs \cup {Root, Home} : change_directory(path) /\ UNCHANGED core
    \/ \E path \in NormalizeWritePaths, content \in Contents, append \in BOOLEAN :
           write_file(path, content, append) /\ UNCHANGED core
    \/ \E path \in RawPaths : NormalizePath(path) /\ UNCHANGED core

SpecNormalize == Init /\ [][NextNormalize]_vars

\* a small workload around a reset that runs statement by statement and may
\* be abandoned at any of them
NextReset ==
    \/ \E path \in ResetWritePaths, content \in Contents :
           Idle /\ write_file(path, content, FALSE) /\ UNCHANGED core
    \/ \E path \in ResetDirPaths : Idle /\ create_directory(path) /\ UNCHANGED core
    \/ \E path \in ResetRemovePaths : Idle /\ remove(path) /\ UNCHANGED core
    \/ \E path \in ResetCdPaths : Idle /\ change_directory(path) /\ UNCHANGED core
    \/ ResetDrop /\ UNCHANGED core
    \/ ResetCreate /\ UNCHANGED core
    \/ ResetCursor /\ UNCHANGED core
    \/ ResetInsert /\ UNCHANGED core
    \/ ResetCommit /\ UNCHANGED core
    \/ ResetInterrupt /\ UNCHANGED core

SpecReset == Init /\ [][NextReset]_vars

\* the shell loop on the command lines, blank and unparsable lines, Ctrl-C and
\* end of input
NextShell ==
    \/ \E parts \in CommandLines : execute_command(parts)
    \/ ParseError
    \/ BlankLine
    \/ KeyboardInterrupt
    \/ EndOfInput

SpecShell == Init /\ [][NextShell]_vars


(***************************************************************************)
(* Vocabulary of the claims.                                               *)
(***************************************************************************)
\* the directories of the table
Directories == {d \in DOMAIN fs : fs[d].type = "directory"}

\* q is exactly one segment deeper than d
DirectChild(q, d) == q # d /\ dirname(q) = d

\* q is strictly nested under d, at any depth
RECURSIVE Nested(_, _)
Nested(q, d) == q # Root /\ (dirname(q) = d \/ Nested(dirname(q), d))

\* s <= t for two strings
StrLeq(s, t) == s = t \/ StrLess(s, t)

(***************************************************************************)
(* C1: listing a directory selects only its direct children, never deeper  *)
(* descendants; with /a, /a/b directories and /a/b/f a file,               *)
(* list_directory("/a") is exactly [("b", directory)].                     *)
(***************************************************************************)
C1_ListsDirectChildrenOnly ==
    /\ \A d \in Directories :
          \A i \in 1..Len(ListQuery(fs, d)) : DirectChild(ListQuery(fs, d)[i], d)
    /\ (A \in Directories /\ AB \in Directories /\ is_file(ABF))
          => list_directory(A) = Some(<< <<basename(AB), "directory">> >>)

(***************************************************************************)
(* C2: in every reachable state the node "/" exists and is a directory.    *)
(***************************************************************************)
C2_RootNeverDeleted == Root \in DOMAIN fs /\ fs[Root].type = "directory"

(***************************************************************************)
(* C3: in every reachable state current_path names an existing directory.  *)
(***************************************************************************)
C3_CursorIsDirectory == current_path \in Directories

(***************************************************************************)
(* C4: whenever create_directory or write_file creates a node other than   *)
(* root, the node's parent path exists at that moment and is a directory.  *)
(***************************************************************************)
C4_ParentExistsAtCreation ==
    [][last'.op \in {"create_directory", "write_file"}
         => \A p \in DOMAIN fs' \ DOMAIN fs :
               p # Root => dirname(p) \in Directories]_vars

(***************************************************************************)
(* C5: list_directory returns every directory entry before every file      *)
(* entry, and entries of one kind in ascending order of name.              *)
(***************************************************************************)
C5_DirectoriesFirstThenByName ==
    \A d \in Directories :
        LET r == list_directory(d).val
        IN \A i, j \in 1..Len(r) :
              i < j => /\ ~(r[i][2] = "file" /\ r[j][2] = "directory")
                       /\ r[i][2] = r[j][2] => StrLeq(r[i][1], r[j][1])

(***************************************************************************)
(* C6: for an existing directory d, remove(d) returns False and leaves the *)
(* table unchanged exactly when some node is strictly nested under d; when *)
(* none is, it returns True and d no longer exists.                        *)
(***************************************************************************)
C6_RemoveFailsIffNested ==
    [][(last'.op = "remove" /\ is_directory(last'.path))
         => LET d == normalize_path(last'.path)
                nested == \E q \in DOMAIN fs : Nested(q, d)
            IN /\ nested => (~last'.ok /\ fs' = fs)
               /\ ~nested => (last'.ok /\ d \notin DOMAIN fs')]_vars

(***************************************************************************)
(* C7: reset_filesystem leaves exactly the startup state: the directories  *)
(* /, /home, /tmp, /usr, /var and the file /welcome.txt with the welcome   *)
(* text, nothing else, and current_path "/".                               *)
(***************************************************************************)
StartupTable ==
    (<<"/">> :> [name |-> <<"r", "o", "o", "t">>, type |-> "directory", content |-> <<>>])
    @@ (<<"/", "h", "o", "m", "e">> :>
          [name |-> <<"h", "o", "m", "e">>, type |-> "directory", content |-> <<>>])
    @@ (<<"/", "t", "m", "p">> :>
          [name |-> <<"t", "m", "p">>, type |-> "directory", content |-> <<>>])
    @@ (<<"/", "u", "s", "r">> :>
          [name |-> <<"u", "s", "r">>, type |-> "directory", content |-> <<>>])
    @@ (<<"/", "v", "a", "r">> :>
          [name |-> <<"v", "a", "r">>, type |-> "directory", content |-> <<>>])
    @@ (<<"/", "w", "e", "l", "c", "o", "m", "e", ".", "t", "x", "t">> :>
          [name |-> <<"w", "e", "l", "c", "o", "m", "e", ".", "t", "x", "t">>,
           type |-> "file", content |-> WelcomeText])

StartupNames ==
    {<<"h", "o", "m", "e">>, <<"t", "m", "p">>, <<"u", "s", "r">>, <<"v", "a", "r">>,
     <<"w", "e", "l", "c", "o", "m", "e", ".", "t", "x", "t">>}

C7_ResetGivesStartupState ==
    last.op = "reset_filesystem"
      => /\ fs = StartupTable
         /\ current_path = Root
         /\ LET r == list_directory(Root)
            IN r.ok /\ Len(r.val) = 5
                    /\ {r.val[i][1] : i \in 1..Len(r.val)} = StartupNames
         /\ read_file(WelcomePath) = Some(WelcomeText)

\* a reset has just run
C7_Witness == last.op = "reset_filesystem" /\ DOMAIN fs = DOMAIN StartupTable

(***************************************************************************)
(* C8: for a path that does not normalize to an existing directory,        *)
(* write_file(p, c) returns True and read_file(p) then returns exactly c,  *)
(* whether p did not exist or was an existing file.                        *)
(***************************************************************************)
C8_WriteThenRead ==
    [][(last'.op = "write_file" /\ ~last'.append /\ ~is_directory(last'.path))
         => /\ last'.ok
            /\ ReadFileIn(fs', current_path', last'.path) = Some(last'.content)]_vars

\* a file that holds other text has just been overwritten
C8_Witness ==
    /\ last.op = "write_file" /\ ~last.append /\ last.ok
    /\ last.path = WelcomePath /\ last.content = <<"x">>
    /\ read_file(WelcomePath) = Some(<<"x">>)

(***************************************************************************)
(* C9: write_file(p, a) followed by write_file(p, b, append=True) makes    *)
(* read_file(p) return a + b; write_file(p, b, append=True) on a path that *)
(* does not exist creates the file with content exactly b.                 *)
(***************************************************************************)
C9_AppendLaw ==
    [][(last'.op = "write_file" /\ last'.append)
         => /\ (last.op = "write_file" /\ last.path = last'.path
                  /\ ~last.append /\ last.ok)
                 => ReadFileIn(fs', current_path', last'.path)
                      = Some(last.content \o last'.content)
            /\ ~exists(last'.path)
                 => ReadFileIn(fs', current_path', last'.path)
                      = Some(last'.content)]_vars

\* an append has just followed a write of non-empty text
C9_Witness ==
    /\ last.op = "write_file" /\ last.append /\ last.ok
    /\ last.content = <<"x">>
    /\ read_file(last.path) = Some(<<"x", "x">>)

(***************************************************************************)
(* C10: create_directory(p) returns False and changes nothing when the     *)
(* normalized p exists or its parent path does not exist; otherwise it     *)
(* returns True, inserts a directory node with empty content at p, and     *)
(* p's name is then listed by list_directory of its parent.                *)
(***************************************************************************)
C10_CreateDirectoryGuard ==
    [][last'.op = "create_directory"
         => LET p == normalize_path(last'.path)
                parent == dirname(p)
            IN IF exists(p) \/ ~exists(parent)
               THEN ~last'.ok /\ fs' = fs
               ELSE /\ last'.ok
                    /\ p \in DOMAIN fs'
                    /\ fs'[p].type = "directory" /\ fs'[p].content = <<>>
                    /\ LET r == ListDirectoryIn(fs', current_path', parent)
                       IN r.ok /\ \E i \in 1..Len(r.val) :
                                    r.val[i] = <<basename(p), "directory">>]_vars

(***************************************************************************)
(* C11: change_directory(p) succeeds exactly when the normalized p exists  *)
(* and is a directory, and then current_path is the normalized p; in every *)
(* other case (a missing path, a file) it fails and current_path is as     *)
(* before.                                                                 *)
(***************************************************************************)
C11_ChangeDirectory ==
    [][last'.op = "change_directory"
         => LET p == normalize_path(last'.path)
            IN /\ last'.ok <=> p \in Directories
               /\ last'.ok => current_path' = p
               /\ ~last'.ok => current_path' = current_path]_vars

\* "cd /welcome.txt" has just failed in /home, and /home is still the cursor
C11_Witness ==
    /\ last.op = "change_directory"
    /\ last.path = WelcomePath
    /\ ~last.ok
    /\ current_path = Home

(***************************************************************************)
(* C12: current_path is mutated only by a successful change_directory:     *)
(* write_file, create_directory, remove, reset_filesystem, the queries and *)
(* a failed change_directory all leave it as it was.                       *)
(***************************************************************************)
C12_OnlyChangeDirectoryMovesCursor ==
    [][current_path' # current_path
         => last'.op = "change_directory" /\ last'.ok]_vars

\* C12 as the code has it: current_path is mutated only by a successful
\* change_directory and by reset_filesystem, which sets it to "/"; every
\* other operation leaves it as it was.
C12_CursorMovedByCdOrReset ==
    [][/\ current_path' # current_path
           => \/ last'.op = "change_directory" /\ last'.ok
              \/ last'.op = "reset_filesystem"
       /\ last'.op = "reset_filesystem" => current_path' = Root]_vars

\* the current directory /home has just been removed, and the cursor has
\* stayed on it
C12_Witness ==
    /\ last.op = "remove"
    /\ last.ok
    /\ normalize_path(last.path) = Home
    /\ current_path = Home

\* p is canonical: "/" alone, or "/"-joined non-empty segments none of which
\* is "." or "..", with no trailing slash
Canonical(p) ==
    \/ p = Root
    \/ /\ p # <<>>
       /\ Head(p) = SLASH
       /\ LET segs == split(Tail(p))
          IN \A i \in 1..Len(segs) :
                 segs[i] # <<>> /\ segs[i] # Dot /\ segs[i] # DotDot

\* the raw path has no "." and no ".." segment
Dotless(p) ==
    LET segs == split(p)
    IN \A i \in 1..Len(segs) : segs[i] # Dot /\ segs[i] # DotDot

(***************************************************************************)
(* C13: normalize_path is idempotent: for every raw path p and every       *)
(* current directory b, normalizing the result of normalize_path(p) again  *)
(* returns that same result.                                               *)
(***************************************************************************)
C13_NormalizeIdempotent ==
    last.op = "normalize_path" => normalize_path(last.ret) = last.ret

\* "/a/./b/" has just been normalized to "/a/b" in /x/y
C13_Witness ==
    /\ last.op = "normalize_path"
    /\ last.path = <<"/", "a", "/", ".", "/", "b", "/">>
    /\ last.ret = <<"/", "a", "/", "b">>
    /\ current_path = XY

(***************************************************************************)
(* C14: normalize_path resolves the segments left to right: a relative     *)
(* path is first prefixed with the current directory, empty and "."        *)
(* segments are dropped, ".." removes the last retained segment and is     *)
(* ignored when there is none; the result is always canonical.  "a/../b"   *)
(* from "/x" gives "/x/b", "/a/./b/" gives "/a/b", ".." from "/home" gives *)
(* "/".                                                                    *)
(***************************************************************************)
C14_NormalizeCanonical ==
    last.op = "normalize_path"
      => LET p == last.path
             relative == p = <<>> \/ Head(p) # SLASH
             abs == IF relative THEN current_path \o <<SLASH>> \o p ELSE p
         IN /\ Canonical(last.ret)
            /\ last.ret = normalize(abs, Root)
            /\ Dotless(abs)
                 => last.ret = <<SLASH>> \o
                      join(SelectSeq(split(abs), LAMBDA seg : seg # <<>>))
                    \/ last.ret = Root
            /\ last.ret = normalize(<<SLASH>> \o DotDot \o abs, Root)
            /\ (p = <<"a", "/", ".", ".", "/", "b">> /\ current_path = X)
                 => last.ret = <<"/", "x", "/", "b">>
            /\ p = <<"/", "a", "/", ".", "/", "b", "/">>
                 => last.ret = <<"/", "a", "/", "b">>
            /\ (p = DotDot /\ current_path = Home) => last.ret = Root

\* "a/../b" has just been normalized to "/x/b" in /x
C14_Witness ==
    /\ last.op = "normalize_path"
    /\ last.path = <<"a", "/", ".", ".", "/", "b">>
    /\ last.ret = <<"/", "x", "/", "b">>
    /\ current_path = X

(***************************************************************************)
(* C15: write_file on a path that normalizes to an existing directory      *)
(* (including "/" and the current directory addressed as "." or "")        *)
(* returns failure and changes neither that node nor any other node.       *)
(***************************************************************************)
C15_WriteToDirectoryRejected ==
    [][(last'.op = "write_file" /\ is_directory(last'.path))
         => /\ ~last'.ok
            /\ fs' = fs
            /\ current_path' = current_path]_vars

\* a write to "" has just failed in the directory /x/y
C15_Witness ==
    /\ last.op = "write_file"
    /\ last.path = <<>>
    /\ last.content = <<"x">>
    /\ ~last.ok
    /\ current_path = XY
    /\ is_directory(XY)

(***************************************************************************)
(* C16: a successful remove(p) deletes exactly the one node at the         *)
(* normalized p and leaves every other node, its kind and its content,     *)
(* unchanged; it never deletes descendants or siblings.                    *)
(***************************************************************************)
C16_RemoveDeletesOneNode ==
    [][(last'.op = "remove" /\ last'.ok)
         => LET p == normalize_path(last'.path)
            IN /\ p \in DOMAIN fs
               /\ DOMAIN fs' = DOMAIN fs \ {p}
               /\ \A q \in DOMAIN fs' : fs'[q] = fs[q]]_vars

\* the file /a has just been removed and the node /a/b below it is still there
C16_Witness ==
    /\ last.op = "remove"
    /\ last.ok
    /\ last.path = A
    /\ AB \in DOMAIN fs
    /\ A \notin DOMAIN fs

\* the raw paths the queries are compared on
ProbePaths == RemovePaths \cup TeardownRemovePaths \cup {DotDot, <<>>}

(***************************************************************************)
(* C17: in every reachable state and for every path p, is_directory(p) and *)
(* is_file(p) are both false when p does not exist and exactly one of them *)
(* is true when exists(p); read_file(p) returns None exactly when          *)
(* is_file(p) is false, and list_directory(p) returns None exactly when    *)
(* is_directory(p) is false.                                               *)
(***************************************************************************)
C17_QueriesAgree ==
    \A p \in ProbePaths :
        /\ ~exists(p) => ~is_directory(p) /\ ~is_file(p)
        /\ exists(p) => (is_directory(p) <=> ~is_file(p))
        /\ ~read_file(p).ok <=> ~is_file(p)
        /\ ~list_directory(p).ok <=> ~is_directory(p)

\* is_file("/a") has just answered True for the file /a, which cannot be listed
C17_Witness ==
    /\ last.op = "is_file"
    /\ last.path = A
    /\ last.ok
    /\ ~is_directory(A)
    /\ read_file(A).ok
    /\ ~list_directory(A).ok

(***************************************************************************)
(* C18: reset_filesystem is all-or-nothing: when it is interrupted or      *)
(* fails at any internal step (after the table drop, after the table       *)
(* re-creation, after the cursor reset, part-way through the default       *)
(* inserts), the observable state, table and current_path, is either       *)
(* entirely the state before the reset or entirely the startup state.      *)
(***************************************************************************)
C18_ResetAllOrNothing ==
    last.op = "reset_interrupted"
      => /\ last.table
         /\ \/ fs = last.pre.fs /\ current_path = last.pre.current_path
            \/ fs = StartupTable /\ current_path = Root

\* the operations that answer True or False, and the pure queries
Mutators == {"write_file", "create_directory", "remove", "change_directory"}
Queries ==
    {"exists", "is_directory", "is_file", "read_file", "list_directory",
     "get_current_directory"}

(***************************************************************************)
(* C19: every operation that returns a failure signal (write_file,         *)
(* create_directory, remove, change_directory returning False; read_file,  *)
(* list_directory returning None) leaves the table and current_path        *)
(* exactly as they were, and the pure queries never change them even on    *)
(* success.                                                                *)
(***************************************************************************)
C19_FailureChangesNothing ==
    [][((last'.op \in Mutators /\ ~last'.ok) \/ last'.op \in Queries)
         => fs' = fs /\ current_path' = current_path]_vars

\* removing the non-empty directory "/" has just been refused
C19_Witness ==
    /\ last.op = "remove"
    /\ last.path = Root
    /\ ~last.ok
    /\ is_directory(Root)
    /\ Cardinality(DOMAIN fs) > 1

\* the last "/"-separated segment of a path
LastSegment(p) == LET segs == split(p) IN segs[Len(segs)]

(***************************************************************************)
(* C20: in every reachable state every stored node has a canonical path    *)
(* ("/" or "/"-joined non-empty segments, none "." or "..", no trailing    *)
(* slash) and its name is the last segment of its path, with the name      *)
(* "root" for the node at "/"; this holds also for a root node re-created  *)
(* after its removal.                                                      *)
(***************************************************************************)
C20_CanonicalPathAndName ==
    \A p \in DOMAIN fs :
        /\ Canonical(p)
        /\ fs[p].name = IF p = Root THEN RootName ELSE LastSegment(p)

\* the line just handled has this command word
CommandWordIs(input, word) ==
    IF input.kind = "line" THEN lower(input.parts[1]) = word ELSE FALSE

(***************************************************************************)
(* C21: the reset command changes the filesystem and the cursor only when  *)
(* its arguments contain "--confirm": without it the table and             *)
(* current_path are unchanged and a warning is returned; with it the VFS   *)
(* is reset to the startup state and the registry is reloaded, so that     *)
(* every default command is still dispatchable.                            *)
(***************************************************************************)
C21_ResetNeedsConfirm ==
    [][CommandWordIs(shell'.input, ResetWord)
         => IF Contains(Tail(shell'.input.parts), Confirm)
            THEN /\ fs' = StartupTable
                 /\ current_path' = Root
                 /\ default_commands \subseteq commands'
                 /\ shell'.result = ResetDone
            ELSE /\ fs' = fs
                 /\ current_path' = current_path
                 /\ commands' = commands
                 /\ shell'.result = ResetWarning]_vars

\* "reset" without "--confirm" has just been answered with the warning, and
\* the file /a and the cursor /home are still there
C21_Witness ==
    /\ shell.input = Line(<<ResetWord>>)
    /\ shell.result = ResetWarning
    /\ A \in DOMAIN fs
    /\ current_path = Home

(***************************************************************************)
(* C22: the shell loop never ends because of a command: run_shell leaves   *)
(* its loop only when the command word is "exit" or on end of input; an    *)
(* unknown command, a parse error, an exception inside a handler or a      *)
(* keyboard interrupt at the prompt does not end it.                       *)
(***************************************************************************)
C22_LoopEndsOnlyOnExit ==
    [][(shell.running /\ ~shell'.running)
         => \/ shell'.input.kind = "eof"
            \/ CommandWordIs(shell'.input, ExitWord)]_vars

=============================================================================
